---- MODULE Spec2Model ----
(***************************************************************************)
(* Model of packages/point-of-sale/hooks/sse-api.ts: the SSE connection    *)
(* manager (class RemoteSSESubscribable), its frame decoder and the        *)
(* process-wide holder (useStatefulSubscribableSSE /                       *)
(* destroyStatefulSubscribableSSE).                                        *)
(*                                                                         *)
(* Execution model.  JavaScript runs one job at a time; an async function  *)
(* runs synchronously up to its next await.  Every action below is one     *)
(* such job: a call made by the application (subscribe, an unsubscribe     *)
(* handle, reconnect, acquire, destroyAll), or the continuation of an      *)
(* await of _connect or subscribe once the awaited promise has settled     *)
(* (fetch resolved or rejected, read() resolved with a chunk, with done,   *)
(* or rejected).                                                           *)
(*                                                                         *)
(* Specifications.  Spec: one instance used directly.  SpecHolder,         *)
(* FairSpecHolder: instances reached through the holder.  SpecOrder: Spec  *)
(* with the messages read and the invocations of the callbacks recorded.   *)
(* SpecHandle: Spec with the calls of unsubscribe handles recorded.        *)
(* SpecDecode: _onMessage on one chunk, the scanning loop of               *)
(* _extractFromSSE step by step.  SpecNotify: one run of                   *)
(* _notifySubscribers, callback by callback, the callbacks changing the    *)
(* subscriber set.  SpecFetch: one call of fetchWithAuth                   *)
(* (packages/checkout/hooks/authenticated-fetch.ts).                       *)
(***************************************************************************)
EXTENDS Integers, Sequences, FiniteSets, TLC

\* ------------------------------------------------------------------ bounds
\* _connect invocations (with a usable URL) per manager instance
MaxTasks == 2
\* subscribe calls per manager instance
MaxCalls == 2
\* instances the holder constructs
MaxInst == 2
\* messages the record of SpecOrder holds
MaxSent == 3
\* pieces a chunk of SpecDecode is made of
MaxPieces == 2
\* payloads the scanning loop collects in SpecDecode
MaxLines == 3
\* entries the subscriber set has held during one broadcast of SpecNotify
MaxEntries == 3

\* The subscriber callbacks of the application.
Callbacks == {"cbA", "cbB"}

\* ---------------------------------------------------------------- helpers
Min(S) == CHOOSE x \in S : \A y \in S : x <= y

\* The value of an absent optional field.
Undef == "undefined"

\* ------------------------------------------------------- SSE frame decoder
\* Text is a sequence of one-character strings.
Marker == <<"d", "a", "t", "a", ":", " ">>
NL == "\n"
WhiteSpace == {" ", NL}

\* String.prototype.indexOf(pat, from): 0-based index of the first occurrence
\* at or after from (a negative from counts as 0), -1 when there is none.
IndexOf(s, pat, from) ==
    LET f == IF from < 0 THEN 0 ELSE from
        hits == {k \in f..(Len(s) - Len(pat)) :
                    \A j \in 1..Len(pat) : s[k + j] = pat[j]}
    IN IF hits = {} THEN -1 ELSE Min(hits)

\* String.prototype.slice(a, b): a negative index counts from the end.
Slice(s, a, b) ==
    LET n == Len(s)
        from == IF a < 0 THEN (IF n + a < 0 THEN 0 ELSE n + a)
                ELSE (IF a > n THEN n ELSE a)
        to == IF b < 0 THEN (IF n + b < 0 THEN 0 ELSE n + b)
              ELSE (IF b > n THEN n ELSE b)
    IN IF from >= to THEN <<>> ELSE SubSeq(s, from + 1, to)

\* String.prototype.trim()
Trim(s) ==
    LET keep == {k \in 1..Len(s) : s[k] \notin WhiteSpace}
    IN IF keep = {} THEN <<>>
       ELSE SubSeq(s, Min(keep), CHOOSE k \in keep : \A j \in keep : j <= k)

\* JSON.parse over the payload alphabet of the model: a non-empty string of
\* the digits 1 and 2 is a JSON number, anything else is a syntax error.
DigitVal(c) == IF c = "1" THEN 1 ELSE 2

RECURSIVE NumVal(_)
NumVal(s) == IF s = <<>> THEN 0
             ELSE 10 * NumVal(SubSeq(s, 1, Len(s) - 1)) + DigitVal(s[Len(s)])

JsonValid(s) == s # <<>> /\ \A k \in 1..Len(s) : s[k] \in {"1", "2"}

JsonParse(s) == NumVal(s)

\* The scanning loop of _extractFromSSE: the payloads collected from
\* startIndex on, appended to dataLines.
RECURSIVE ExtractLoop(_, _, _)
ExtractLoop(ssePayload, startIndex, dataLines) ==
    LET dataIndex == IndexOf(ssePayload, Marker, startIndex)
    IN IF dataIndex = -1 THEN dataLines
       ELSE LET start == dataIndex + 6
                endIndex == IndexOf(ssePayload, <<NL>>, start)
            IN ExtractLoop(ssePayload, endIndex,
                   Append(dataLines, Trim(Slice(ssePayload, start, endIndex))))

DataLines(ssePayload) == ExtractLoop(ssePayload, 0, <<>>)

\* dataLines.map(JSON.parse) throws when any line is not JSON.
ParseFails(ssePayload) ==
    \E k \in 1..Len(DataLines(ssePayload)) : ~JsonValid(DataLines(ssePayload)[k])

\* What _extractFromSSE returns: the parsed values, or [] after a failure.
ExtractFromSSE(ssePayload) ==
    IF ParseFails(ssePayload) THEN <<>>
    ELSE [k \in 1..Len(DataLines(ssePayload)) |-> JsonParse(DataLines(ssePayload)[k])]

\* Chunks the server sends in the lifecycle specifications.  Every marker
\* is followed by a newline.
FrameOf(c) == Marker \o <<c, NL>>
ChunkOne == FrameOf("1")
ChunkTwo == FrameOf("1") \o FrameOf("2")
ChunkBad == FrameOf("x")
Chunks == {ChunkOne, ChunkTwo, ChunkBad}

\* The messages a chunk of Chunks carries, by its construction from frames:
\* the payload x of ChunkBad is no JSON, so the chunk decodes to nothing.
Carried(chunk) ==
    CASE chunk = ChunkOne -> <<1>>
      [] chunk = ChunkTwo -> <<1, 2>>
      [] OTHER -> <<>>

\* ------------------------------------------------------------ client state
\* defaultSSEClient; its reconnect is a function that does nothing.
defaultSSEClient ==
    [connected |-> FALSE, lastMessage |-> Undef, error |-> Undef,
     reconnect |-> "noop"]

\* Messages of the errors the code reports.
ErrFetch == "Failed to fetch"
ErrNoBody == "ReadableStream not supported in this environment"
ErrRead == "network error"
ErrParse == "Failed to parse JSON data"

\* ------------------------------------------------------- manager instances
\* A broadcast: one call of _notifySubscribers.  src names the call site,
\* to the callbacks invoked, in order; open tells whether a stream of the
\* instance was open when the broadcast was made, and cur whether the stream
\* this.reader reads, the one opened last, was.
NoBroadcast ==
    [src |-> "none", state |-> defaultSSEClient, to |-> <<>>, open |-> FALSE,
     cur |-> FALSE]

\* The instance the constructor builds.  tasks are the invocations of
\* _connect that got past the URL test, in order of invocation; the stream a
\* task's fetch delivers carries the task's number, and reader is the number
\* of the stream this.reader reads (0: undefined).  calls are the subscribe
\* calls.  log collects the broadcasts of the job being run, in order (it is
\* empty between jobs), and last is the most recent broadcast of all; handed
\* tells whether the
\* application holds a client state made from this.client, and with it the
\* instance's reconnect function.  wrapper is the state of the stateful
\* wrapper around the instance ("none": used directly).
NewManager(u) ==
    [url |-> u,
     client |-> [defaultSSEClient EXCEPT !.reconnect = "bound"],
     subscribers |-> <<>>,
     reader |-> 0,
     tasks |-> <<>>,
     calls |-> <<>>,
     log |-> <<>>,
     last |-> NoBroadcast,
     handed |-> FALSE,
     wrapper |-> "none"]

\* A task: where its _connect invocation is, the stream its pending read()
\* was issued on, the status of the stream its fetch delivered, and that
\* stream's queue of pending read requests (tasks, oldest first).
NewTask == [pc |-> "fetch", rd |-> 0, stream |-> "none", q |-> <<>>]

OpenStreams(m) == {r \in 1..Len(m.tasks) : m.tasks[r].stream = "open"}

\* Set.prototype.add / delete on the insertion-ordered subscriber set.
SetAdd(seq, x) ==
    IF \E k \in 1..Len(seq) : seq[k] = x THEN seq ELSE Append(seq, x)

SetDelete(seq, x) == SelectSeq(seq, LAMBDA y : y # x)

\* _notifySubscribers(state)
NotifySubscribers(m, state, src) ==
    LET b == [src |-> src, state |-> state, to |-> m.subscribers,
              open |-> OpenStreams(m) # {},
              cur |-> m.reader \in OpenStreams(m)]
    IN [m EXCEPT !.log = Append(@, b),
                 !.last = b,
                 !.handed = @ \/ m.subscribers # <<>>]

\* The states the code broadcasts, each built from this.client.
MessageState(m, obj) == [m.client EXCEPT !.connected = TRUE, !.lastMessage = obj]
CatchState(m, msg) == [m.client EXCEPT !.error = msg, !.connected = FALSE]
FinallyState(m) == [m.client EXCEPT !.connected = FALSE]
DisconnectState(m) == [m.client EXCEPT !.connected = FALSE]
ParseErrorState(m) == [m.client EXCEPT !.error = ErrParse]

\* The test that opens _connect.
ConnectIsNoop(m) == m.url = "" \/ Len(m.url) <= 1

\* _connect up to its first await: the fetch is issued.
Connect(m) ==
    IF ConnectIsNoop(m) THEN m
    ELSE [m EXCEPT !.tasks = Append(@, NewTask)]

\* reader.cancel(): an open stream is cancelled and its pending reads
\* resolve with done; a stream already closed or errored stays as it is.
Cancel(m, r) ==
    IF m.tasks[r].stream = "open"
    THEN [m EXCEPT !.tasks[r].stream = "cancelled", !.tasks[r].q = <<>>]
    ELSE m

\* Mutant of Disconnect: the reader is cancelled and nobody is told.
DisconnectSilent(m) ==
    IF m.reader # 0 THEN Cancel(m, m.reader) ELSE m

\* _disconnect()
Disconnect(m) ==
    IF m.reader # 0
    THEN LET c == Cancel(m, m.reader)
         IN NotifySubscribers(c, DisconnectState(c), "disconnect")
    ELSE m

\* this.reader!.read() by task t: the request joins the queue of the stream
\* this.reader reads now, when that stream is open.
IssueRead(m, t) ==
    LET r == m.reader
        m1 == [m EXCEPT !.tasks[t].pc = "read", !.tasks[t].rd = r]
    IN IF m.tasks[r].stream = "open"
       THEN [m1 EXCEPT !.tasks[r].q = Append(@, t)]
       ELSE m1

\* messageObjects.forEach of _onMessage
RECURSIVE NotifyEach(_, _)
NotifyEach(m, objs) ==
    IF objs = <<>> THEN m
    ELSE NotifyEach(NotifySubscribers(m, MessageState(m, Head(objs)), "message"),
                    Tail(objs))

\* Mutant of OnMessage: the objects of a chunk are broadcast last first.
OnMessageNewestFirst(m, message) ==
    LET objs == ExtractFromSSE(message)
    IN NotifyEach(m, [k \in 1..Len(objs) |-> objs[Len(objs) + 1 - k]])

\* _onMessage(message), with the catch branch of _extractFromSSE
OnMessage(m, message) ==
    IF ParseFails(message)
    THEN NotifyEach(NotifySubscribers(m, ParseErrorState(m), "parse"),
                    ExtractFromSSE(message))
    ELSE NotifyEach(m, ExtractFromSSE(message))

\* Mutant of OnLines: each line is parsed when its turn to be broadcast
\* comes, so the lines before a bad one are broadcast.
RECURSIVE OnLinesEager(_, _)
OnLinesEager(m, dataLines) ==
    IF dataLines = <<>> THEN m
    ELSE IF ~JsonValid(Head(dataLines))
         THEN NotifySubscribers(m, ParseErrorState(m), "parse")
         ELSE OnLinesEager(NotifySubscribers(m, MessageState(m, JsonParse(Head(dataLines))),
                                             "message"),
                           Tail(dataLines))

\* _onMessage from the point where the scanning loop of _extractFromSSE has
\* left dataLines: the lines are parsed, all of them before any broadcast,
\* and a failure is broadcast from the catch block, which returns [].
OnLines(m, dataLines) ==
    IF \E k \in 1..Len(dataLines) : ~JsonValid(dataLines[k])
    THEN NotifyEach(NotifySubscribers(m, ParseErrorState(m), "parse"), <<>>)
    ELSE NotifyEach(m, [k \in 1..Len(dataLines) |-> JsonParse(dataLines[k])])

\* The catch and finally blocks of _connect, ending the invocation.
CatchFinally(m, t, msg) ==
    LET c == NotifySubscribers(m, CatchState(m, msg), "catch")
        f == NotifySubscribers(c, FinallyState(c), "finally")
    IN [f EXCEPT !.tasks[t].pc = "done", !.tasks[t].rd = 0]

\* The break on done and the finally block.
BreakFinally(m, t) ==
    LET f == NotifySubscribers(m, FinallyState(m), "finally")
    IN [f EXCEPT !.tasks[t].pc = "done", !.tasks[t].rd = 0]

\* A subscribe call: the callback registered, its state ("awaiting" the
\* _connect it started, "ready" once it has returned), the task awaited
\* (0: none) and the client state returned.
NewCall(cb, st, task, ret) == [cb |-> cb, st |-> st, task |-> task, ret |-> ret]

\* subscribe(subscriber) up to its await, or to its return when a reader is
\* held.
SubscribeCall(m, cb) ==
    LET m1 == [m EXCEPT !.subscribers = SetAdd(@, cb)]
    IN IF m1.reader = 0
       THEN LET m2 == Connect(m1)
                t == IF ConnectIsNoop(m1) THEN 0 ELSE Len(m2.tasks)
            IN [m2 EXCEPT !.calls = Append(@, NewCall(cb, "awaiting", t, defaultSSEClient))]
       ELSE [m1 EXCEPT !.calls = Append(@, NewCall(cb, "ready", 0, m1.client)),
                       !.handed = TRUE]

\* subscribe after its await: the unsubscribe handle and this.client are
\* returned.
SubscribeResume(m, c) ==
    [m EXCEPT !.calls[c].st = "ready", !.calls[c].ret = m.client, !.handed = TRUE]

\* The unsubscribe handle of call c.
UnsubscribeCall(m, c) ==
    LET m1 == [m EXCEPT !.subscribers = SetDelete(@, m.calls[c].cb)]
    IN IF Len(m1.subscribers) = 0 THEN Disconnect(m1) ELSE m1

\* client.reconnect()
ReconnectCall(m) == Connect(Disconnect(m))

\* The continuation of _connect after fetch resolved with a body.
FetchResolved(m, t) ==
    IssueRead([m EXCEPT !.reader = t, !.tasks[t].stream = "open"], t)

\* The continuation of the loop after read() delivered a chunk to the oldest
\* request of stream r.
ChunkRead(m, r, chunk) ==
    LET t == Head(m.tasks[r].q)
        m1 == [m EXCEPT !.tasks[r].q = Tail(@)]
    IN IssueRead(OnMessage(m1, chunk), t)

\* The server closes the body of stream r, or the transport fails.
StreamClosed(m, r, how) ==
    [m EXCEPT !.tasks[r].stream = how, !.tasks[r].q = <<>>]

\* ------------------------------------------------------------------- state
VARIABLES insts, holder, lastAcquire, sent, heard, dec, used, fa, nf

vars == <<insts, holder, lastAcquire, sent, heard, dec, used, fa, nf>>

\* The record of the messages: sent lists, in order of arrival, the messages
\* of the chunks the read loops have read, each with the callbacks registered
\* at that moment; heard[cb] lists the lastMessage values callback cb was
\* invoked with.  Only the specification SpecOrder keeps the record.
\* dec is the run of _onMessage the specification SpecDecode follows step by
\* step; the other specifications leave it idle.
\* used holds the unsubscribe handles called so far (instance and call);
\* the specification SpecHandle keeps it.
\* fa is the call of fetchWithAuth the specification SpecFetch follows.
\* nf is the broadcast the specification SpecNotify follows callback by
\* callback.
record == <<sent, heard, dec, used, fa, nf>>

NoRecord ==
    /\ sent = <<>>
    /\ heard = [cb \in Callbacks |-> <<>>]
    /\ dec = [pc |-> "idle"]
    /\ used = {}
    /\ fa = [pc |-> "idle"]
    /\ nf = [pc |-> "idle"]

Insts == 1..Len(insts)
Tasks(i) == 1..Len(insts[i].tasks)
Calls(i) == 1..Len(insts[i].calls)

\* The instance a job of instance i starts from.
Job(i) == insts[i]

\* A continuation is due (a microtask is queued): a read() has settled with
\* done or with an error and its loop has not resumed yet, or the _connect a
\* subscribe call awaits has returned.  The microtask queue is drained before
\* the next task runs; network events and the application's calls (made from
\* event handlers and effects) are tasks.
ReadSettled(m, t) ==
    /\ m.tasks[t].pc = "read"
    /\ m.tasks[m.tasks[t].rd].stream # "open"

\* Mutant of ConnectReturned: _connect returns once its fetch has settled,
\* without awaiting the read loop.
ConnectReturnedEarly(m, c) ==
    /\ m.calls[c].st = "awaiting"
    /\ IF m.calls[c].task = 0 THEN TRUE ELSE m.tasks[m.calls[c].task].pc # "fetch"

ConnectReturned(m, c) ==
    /\ m.calls[c].st = "awaiting"
    /\ IF m.calls[c].task = 0 THEN TRUE ELSE m.tasks[m.calls[c].task].pc = "done"

\* destroy() of the wrapper awaits the wrapper's subscribe call.
DestroyDue(m) == m.wrapper = "destroying" /\ m.calls[1].st = "ready"

ContinuationDue ==
    \E i \in Insts :
        \/ \E t \in Tasks(i) : ReadSettled(insts[i], t)
        \/ \E c \in Calls(i) : ConnectReturned(insts[i], c)
        \/ DestroyDue(insts[i])

\* The job of instance i is over and has left the instance as m.
Update(i, m) ==
    /\ insts' = [insts EXCEPT ![i] = [m EXCEPT !.log = <<>>]]
    /\ UNCHANGED <<holder, lastAcquire, record>>

\* ------------------------------------------------- actions of one instance
Subscribe(i, cb) ==
    /\ ~ContinuationDue
    /\ insts[i].wrapper = "none"
    /\ Len(insts[i].calls) < MaxCalls
    /\ (insts[i].reader = 0 /\ ~ConnectIsNoop(insts[i]))
          => Len(insts[i].tasks) < MaxTasks
    /\ Update(i, SubscribeCall(Job(i), cb))

SubscribeReturn(i, c) ==
    /\ ConnectReturned(insts[i], c)
    /\ Update(i, SubscribeResume(Job(i), c))

Unsubscribe(i, c) ==
    /\ ~ContinuationDue
    /\ insts[i].wrapper = "none"
    /\ insts[i].calls[c].st = "ready"
    /\ Update(i, UnsubscribeCall(Job(i), c))

Reconnect(i) ==
    /\ ~ContinuationDue
    /\ insts[i].handed
    /\ ~ConnectIsNoop(insts[i]) => Len(insts[i].tasks) < MaxTasks
    /\ Update(i, ReconnectCall(Job(i)))

FetchResolve(i, t) ==
    /\ ~ContinuationDue
    /\ insts[i].tasks[t].pc = "fetch"
    /\ Update(i, FetchResolved(Job(i), t))

FetchNoBody(i, t) ==
    /\ ~ContinuationDue
    /\ insts[i].tasks[t].pc = "fetch"
    /\ Update(i, CatchFinally(Job(i), t, ErrNoBody))

FetchReject(i, t) ==
    /\ ~ContinuationDue
    /\ insts[i].tasks[t].pc = "fetch"
    /\ Update(i, CatchFinally(Job(i), t, ErrFetch))

ChunkArrive(i, r, chunk) ==
    /\ ~ContinuationDue
    /\ insts[i].tasks[r].stream = "open"
    /\ insts[i].tasks[r].q # <<>>
    /\ Update(i, ChunkRead(Job(i), r, chunk))

ServerEnd(i, r) ==
    /\ ~ContinuationDue
    /\ insts[i].tasks[r].stream = "open"
    /\ Update(i, StreamClosed(Job(i), r, "ended"))

TransportError(i, r) ==
    /\ ~ContinuationDue
    /\ insts[i].tasks[r].stream = "open"
    /\ Update(i, StreamClosed(Job(i), r, "errored"))

ReadDone(i, t) ==
    /\ ReadSettled(insts[i], t)
    /\ insts[i].tasks[insts[i].tasks[t].rd].stream \in {"ended", "cancelled"}
    /\ Update(i, BreakFinally(Job(i), t))

ReadThrow(i, t) ==
    /\ ReadSettled(insts[i], t)
    /\ insts[i].tasks[insts[i].tasks[t].rd].stream = "errored"
    /\ Update(i, CatchFinally(Job(i), t, ErrRead))

\* ---------------------------------------------- one instance, used directly
Urls == {"", "u", "ab"}

Init ==
    /\ \E u \in Urls : insts = <<NewManager(u)>>
    /\ holder = 0
    /\ lastAcquire = [url |-> Undef, ret |-> 0, fresh |-> FALSE]
    /\ NoRecord

Next ==
    \/ \E i \in Insts, cb \in Callbacks : Subscribe(i, cb)
    \/ \E i \in Insts : \E c \in Calls(i) : SubscribeReturn(i, c)
    \/ \E i \in Insts : \E c \in Calls(i) : Unsubscribe(i, c)
    \/ \E i \in Insts : Reconnect(i)
    \/ \E i \in Insts : \E t \in Tasks(i) : FetchResolve(i, t)
    \/ \E i \in Insts : \E t \in Tasks(i) : FetchNoBody(i, t)
    \/ \E i \in Insts : \E t \in Tasks(i) : FetchReject(i, t)
    \/ \E i \in Insts : \E t \in Tasks(i), chunk \in Chunks : ChunkArrive(i, t, chunk)
    \/ \E i \in Insts : \E t \in Tasks(i) : ServerEnd(i, t)
    \/ \E i \in Insts : \E t \in Tasks(i) : TransportError(i, t)
    \/ \E i \in Insts : \E t \in Tasks(i) : ReadDone(i, t)
    \/ \E i \in Insts : \E t \in Tasks(i) : ReadThrow(i, t)

Spec == Init /\ [][Next]_vars

\* ------------------------------------------------------------- the holder
\* The url arguments of useStatefulSubscribableSSE.
AcquireUrls == {Undef, "", "ab", "cd"}

\* The truthiness test of `!statefulSubscribable && url`.
Truthy(u) == u # Undef /\ u # ""

\* The callback makeStatefulSubscribable registers with the instance.
Listener == "listener"

\* makeStatefulSubscribable(new RemoteSSESubscribable(url)): the wrapper
\* subscribes its listener to the new instance at once.
MakeStateful(u) == [SubscribeCall(NewManager(u), Listener) EXCEPT !.wrapper = "live"]

\* Mutant of Acquire: the test for an instance already held is missing.
AcquireRebinding(u) ==
    /\ ~ContinuationDue
    /\ IF Truthy(u)
       THEN /\ Len(insts) < MaxInst
            /\ insts' = Append(insts, [MakeStateful(u) EXCEPT !.log = <<>>])
            /\ holder' = Len(insts) + 1
            /\ lastAcquire' = [url |-> u, ret |-> Len(insts) + 1, fresh |-> TRUE]
       ELSE /\ lastAcquire' = [url |-> u, ret |-> holder, fresh |-> FALSE]
            /\ UNCHANGED <<insts, holder>>
    /\ UNCHANGED record

\* useStatefulSubscribableSSE(url); lastAcquire records the argument, the
\* value returned and whether the call constructed it.
Acquire(u) ==
    /\ ~ContinuationDue
    /\ IF holder = 0 /\ Truthy(u)
       THEN /\ Len(insts) < MaxInst
            /\ insts' = Append(insts, [MakeStateful(u) EXCEPT !.log = <<>>])
            /\ holder' = Len(insts) + 1
            /\ lastAcquire' = [url |-> u, ret |-> Len(insts) + 1, fresh |-> TRUE]
       ELSE /\ lastAcquire' = [url |-> u, ret |-> holder, fresh |-> FALSE]
            /\ UNCHANGED <<insts, holder>>
    /\ UNCHANGED record

\* destroyStatefulSubscribableSSE(): destroy() runs up to its await of the
\* wrapper's subscribe call, and the holder is reset.
DestroyAll ==
    /\ ~ContinuationDue
    /\ IF holder # 0
       THEN /\ insts' = [insts EXCEPT ![holder].wrapper = "destroying"]
            /\ holder' = 0
       ELSE UNCHANGED <<insts, holder>>
    /\ UNCHANGED <<lastAcquire, record>>

\* destroy() after its await: the unsubscribe handle subscribe returned is
\* called.
DestroyFinish(i) ==
    /\ DestroyDue(insts[i])
    /\ Update(i, [UnsubscribeCall(Job(i), 1) EXCEPT !.wrapper = "destroyed"])

InitHolder ==
    /\ insts = <<>>
    /\ holder = 0
    /\ lastAcquire = [url |-> Undef, ret |-> 0, fresh |-> FALSE]
    /\ NoRecord

\* The application reaches the instance through the holder only; reconnect
\* is left to Spec.
NextHolder ==
    \/ \E u \in AcquireUrls : Acquire(u)
    \/ DestroyAll
    \/ \E i \in Insts : DestroyFinish(i)
    \/ \E i \in Insts : \E c \in Calls(i) : SubscribeReturn(i, c)
    \/ \E i \in Insts : \E t \in Tasks(i) : FetchResolve(i, t)
    \/ \E i \in Insts : \E t \in Tasks(i) : FetchNoBody(i, t)
    \/ \E i \in Insts : \E t \in Tasks(i) : FetchReject(i, t)
    \/ \E i \in Insts : \E t \in Tasks(i), chunk \in Chunks : ChunkArrive(i, t, chunk)
    \/ \E i \in Insts : \E t \in Tasks(i) : ServerEnd(i, t)
    \/ \E i \in Insts : \E t \in Tasks(i) : TransportError(i, t)
    \/ \E i \in Insts : \E t \in Tasks(i) : ReadDone(i, t)
    \/ \E i \in Insts : \E t \in Tasks(i) : ReadThrow(i, t)

SpecHolder == InitHolder /\ [][NextHolder]_vars

\* The continuations are microtasks: once due, they run.
Continuations ==
    \E i \in Insts :
        \/ DestroyFinish(i)
        \/ \E c \in Calls(i) : SubscribeReturn(i, c)
        \/ \E t \in Tasks(i) : ReadDone(i, t)
        \/ \E t \in Tasks(i) : ReadThrow(i, t)

FairSpecHolder == SpecHolder /\ WF_vars(Continuations)

\* ------------------------------------------ one instance, messages recorded
\* The lastMessage values the broadcasts of log invoked callback cb with, one
\* per invocation, in order.
RECURSIVE Invocations(_, _)
Invocations(log, cb) ==
    IF log = <<>> THEN <<>>
    ELSE LET b == Head(log)
             n == Cardinality({k \in 1..Len(b.to) : b.to[k] = cb})
         IN (IF b.src = "message" THEN [k \in 1..n |-> b.state.lastMessage]
             ELSE <<>>) \o Invocations(Tail(log), cb)

\* ChunkArrive, with the record kept.
ChunkArriveHeard(i, r, chunk) ==
    /\ ~ContinuationDue
    /\ insts[i].tasks[r].stream = "open"
    /\ insts[i].tasks[r].q # <<>>
    /\ Len(sent) + Len(Carried(chunk)) <= MaxSent
    /\ insts' = [insts EXCEPT ![i] = [ChunkRead(Job(i), r, chunk) EXCEPT !.log = <<>>]]
    /\ sent' = sent \o [k \in 1..Len(Carried(chunk)) |->
                           [msg |-> Carried(chunk)[k], to |-> insts[i].subscribers]]
    /\ heard' = [cb \in Callbacks |->
                    heard[cb] \o Invocations(ChunkRead(Job(i), r, chunk).log, cb)]
    /\ UNCHANGED <<holder, lastAcquire, dec, used, fa, nf>>

InitOrder ==
    /\ insts = <<NewManager("ab")>>
    /\ holder = 0
    /\ lastAcquire = [url |-> Undef, ret |-> 0, fresh |-> FALSE]
    /\ NoRecord

NextOrder ==
    \/ \E i \in Insts, cb \in Callbacks : Subscribe(i, cb)
    \/ \E i \in Insts : \E c \in Calls(i) : SubscribeReturn(i, c)
    \/ \E i \in Insts : \E c \in Calls(i) : Unsubscribe(i, c)
    \/ \E i \in Insts : \E t \in Tasks(i) : FetchResolve(i, t)
    \/ \E i \in Insts : \E t \in Tasks(i), chunk \in Chunks : ChunkArriveHeard(i, t, chunk)
    \/ \E i \in Insts : \E t \in Tasks(i) : ServerEnd(i, t)
    \/ \E i \in Insts : \E t \in Tasks(i) : ReadDone(i, t)

SpecOrder == InitOrder /\ [][NextOrder]_vars

\* ------------------------------------- one chunk, decoded step by step
\* The pieces chunks are made of: a frame with a JSON payload, a frame whose
\* payload is no JSON, and a marker with a payload and no newline after it.
PieceOne == FrameOf("1")
PieceBad == FrameOf("x")
PieceOpen == Marker \o <<"2">>
Pieces == {PieceOne, PieceBad, PieceOpen}

RECURSIVE Concat(_)
Concat(ps) == IF ps = <<>> THEN <<>> ELSE Head(ps) \o Concat(Tail(ps))

PieceLists == UNION {[1..n -> Pieces] : n \in 0..MaxPieces}

\* The instance a read loop runs in: callbacks subscribed, the first of them
\* having started the connection, and the body of the response delivered.
RECURSIVE Subscribed(_)
Subscribed(cbs) ==
    IF Len(cbs) = 1 THEN FetchResolved(SubscribeCall(NewManager("ab"), cbs[1]), 1)
    ELSE SubscribeCall(Subscribed(SubSeq(cbs, 1, Len(cbs) - 1)), cbs[Len(cbs)])

\* read() delivers the chunk made of pieces ps: _onMessage calls
\* _extractFromSSE, which sets up its loop.
DecodeStart(ps) ==
    [pc |-> "scan", pieces |-> ps, ssePayload |-> Concat(ps), startIndex |-> 0,
     dataLines |-> <<>>, out |-> <<>>]

\* One iteration of the scanning loop that finds a marker.
ScanPush ==
    /\ dec.pc = "scan"
    /\ Len(dec.dataLines) < MaxLines
    /\ LET dataIndex == IndexOf(dec.ssePayload, Marker, dec.startIndex)
           start == dataIndex + 6
           endIndex == IndexOf(dec.ssePayload, <<NL>>, start)
       IN /\ dataIndex # -1
          /\ dec' = [dec EXCEPT !.dataLines = Append(@, Trim(Slice(dec.ssePayload, start, endIndex))),
                                !.startIndex = endIndex]
    /\ UNCHANGED <<insts, holder, lastAcquire, sent, heard, used, fa, nf>>

\* The iteration that finds no marker leaves the loop.
ScanBreak ==
    /\ dec.pc = "scan"
    /\ IndexOf(dec.ssePayload, Marker, dec.startIndex) = -1
    /\ dec' = [dec EXCEPT !.pc = "parse"]
    /\ UNCHANGED <<insts, holder, lastAcquire, sent, heard, used, fa, nf>>

\* The lines are parsed and the result is broadcast; out keeps the
\* broadcasts made for the chunk.
ParseDeliver ==
    /\ dec.pc = "parse"
    /\ dec' = [dec EXCEPT !.pc = "done", !.out = OnLines(Job(1), dec.dataLines).log]
    /\ insts' = [insts EXCEPT ![1] = [OnLines(Job(1), dec.dataLines) EXCEPT !.log = <<>>]]
    /\ UNCHANGED <<holder, lastAcquire, sent, heard, used, fa, nf>>

InitDecode ==
    /\ \E cbs \in {<<"cbA">>, <<"cbB">>, <<"cbA", "cbB">>} :
           insts = <<[Subscribed(cbs) EXCEPT !.log = <<>>]>>
    /\ holder = 0
    /\ lastAcquire = [url |-> Undef, ret |-> 0, fresh |-> FALSE]
    /\ sent = <<>>
    /\ heard = [cb \in Callbacks |-> <<>>]
    /\ used = {}
    /\ fa = [pc |-> "idle"]
    /\ nf = [pc |-> "idle"]
    /\ \E ps \in PieceLists : dec = DecodeStart(ps)

NextDecode ==
    \/ ScanPush
    \/ ScanBreak
    \/ ParseDeliver

SpecDecode == InitDecode /\ [][NextDecode]_vars

\* ------------------------------------ one instance, handle calls recorded
\* Unsubscribe, with the call of the handle recorded.
UnsubscribeNoted(i, c) ==
    /\ ~ContinuationDue
    /\ insts[i].wrapper = "none"
    /\ insts[i].calls[c].st = "ready"
    /\ insts' = [insts EXCEPT ![i] = [UnsubscribeCall(Job(i), c) EXCEPT !.log = <<>>]]
    /\ used' = used \cup {<<i, c>>}
    /\ UNCHANGED <<holder, lastAcquire, sent, heard, dec, fa, nf>>

NextHandle ==
    \/ \E i \in Insts, cb \in Callbacks : Subscribe(i, cb)
    \/ \E i \in Insts : \E c \in Calls(i) : SubscribeReturn(i, c)
    \/ \E i \in Insts : \E c \in Calls(i) : UnsubscribeNoted(i, c)
    \/ \E i \in Insts : Reconnect(i)
    \/ \E i \in Insts : \E t \in Tasks(i) : FetchResolve(i, t)
    \/ \E i \in Insts : \E t \in Tasks(i) : ServerEnd(i, t)
    \/ \E i \in Insts : \E t \in Tasks(i) : ReadDone(i, t)

SpecHandle == InitOrder /\ [][NextHandle]_vars

\* ------------------------------------------------- fetchWithAuth, one call
\* Header names and the values callers and the session use.
HeaderNames == {"Authorization", "Content-Type", "Custom-Header"}
CallerValue == "custom-value"
Tokens == {"tokenA", "tokenB"}
Inputs == {"/data", "/items"}
Methods == {Undef, "GET", "POST"}

\* init.headers is a HeadersInit: a plain object or a Headers instance, each
\* holding entries (a function from names to values), or absent.  (A list of
\* pairs, the third form, is left out.)
NoEntries == [n \in {} |-> CallerValue]

NoHeaders == [kind |-> "absent", entries |-> NoEntries]

HeaderArgs ==
    {NoHeaders} \cup
    {[kind |-> k, entries |-> [n \in ns |-> CallerValue]] :
        k \in {"object", "Headers"}, ns \in SUBSET HeaderNames}

\* init: absent, or an object with method and headers.
NoInit == [given |-> FALSE, method |-> Undef, headers |-> NoHeaders]

InitArgs ==
    {NoInit} \cup
    {[given |-> TRUE, method |-> me, headers |-> h] : me \in Methods, h \in HeaderArgs}

\* The own enumerable properties an object spread copies from x: those of a
\* plain object; a Headers instance keeps its entries in an internal list
\* and has none; `x || {}` turns an absent x into {}.
Spread(x) == IF x.kind = "object" THEN x.entries ELSE NoEntries

\* { ...a, ...b }
Overlay(a, b) ==
    [n \in DOMAIN a \cup DOMAIN b |-> IF n \in DOMAIN b THEN b[n] ELSE a[n]]

\* `Bearer ${token}`
Bearer(token) == IF token = "tokenA" THEN "Bearer tokenA" ELSE "Bearer tokenB"

defaultHeaders(token) ==
    [n \in {"Authorization", "Content-Type"} |->
        IF n = "Authorization" THEN Bearer(token) ELSE "application/json"]

\* init?.headers
HeadersOf(init) == IF init.given THEN init.headers ELSE NoHeaders

mergedHeaders(token, init) == Overlay(defaultHeaders(token), Spread(HeadersOf(init)))

\* { ...init, headers: mergedHeaders }, as passed to fetch
mergedInit(token, init) ==
    [method |-> IF init.given THEN init.method ELSE Undef,
     headers |-> mergedHeaders(token, init)]

\* fetchWithAuth(input, init) up to `await sessionToken.get()`
InitFetch ==
    /\ insts = <<>>
    /\ holder = 0
    /\ lastAcquire = [url |-> Undef, ret |-> 0, fresh |-> FALSE]
    /\ sent = <<>>
    /\ heard = [cb \in Callbacks |-> <<>>]
    /\ dec = [pc |-> "idle"]
    /\ used = {}
    /\ nf = [pc |-> "idle"]
    /\ \E input \in Inputs, init \in InitArgs :
           fa = [pc |-> "token", input |-> input, init |-> init, token |-> Undef,
                 requests |-> <<>>, response |-> Undef, outcome |-> Undef]

\* The session token arrives: the request is built and issued.
TokenResolve(token) ==
    /\ fa.pc = "token"
    /\ fa' = [fa EXCEPT !.pc = "fetch", !.token = token,
                        !.requests = Append(@, [input |-> fa.input,
                                                init |-> mergedInit(token, fa.init)])]
    /\ UNCHANGED <<insts, holder, lastAcquire, sent, heard, dec, used, nf>>

\* sessionToken.get() rejects: the catch block rethrows.
TokenReject ==
    /\ fa.pc = "token"
    /\ fa' = [fa EXCEPT !.pc = "thrown", !.outcome = "token error"]
    /\ UNCHANGED <<insts, holder, lastAcquire, sent, heard, dec, used, nf>>

\* fetch resolves with an ok response: response.json() is awaited.
ResponseOk ==
    /\ fa.pc = "fetch"
    /\ fa' = [fa EXCEPT !.pc = "json", !.response = "ok"]
    /\ UNCHANGED <<insts, holder, lastAcquire, sent, heard, dec, used, nf>>

ResponseNotOk ==
    /\ fa.pc = "fetch"
    /\ fa' = [fa EXCEPT !.pc = "thrown", !.response = "not ok",
                        !.outcome = "Network response was not ok"]
    /\ UNCHANGED <<insts, holder, lastAcquire, sent, heard, dec, used, nf>>

\* fetch rejects.
RequestFails ==
    /\ fa.pc = "fetch"
    /\ fa' = [fa EXCEPT !.pc = "thrown", !.outcome = ErrFetch]
    /\ UNCHANGED <<insts, holder, lastAcquire, sent, heard, dec, used, nf>>

JsonResolve ==
    /\ fa.pc = "json"
    /\ fa' = [fa EXCEPT !.pc = "returned", !.outcome = "json"]
    /\ UNCHANGED <<insts, holder, lastAcquire, sent, heard, dec, used, nf>>

JsonReject ==
    /\ fa.pc = "json"
    /\ fa' = [fa EXCEPT !.pc = "thrown", !.outcome = "body is no JSON"]
    /\ UNCHANGED <<insts, holder, lastAcquire, sent, heard, dec, used, nf>>

NextFetch ==
    \/ \E token \in Tokens : TokenResolve(token)
    \/ TokenReject
    \/ ResponseOk
    \/ ResponseNotOk
    \/ RequestFails
    \/ JsonResolve
    \/ JsonReject

SpecFetch == InitFetch /\ [][NextFetch]_vars

\* ------------------------------- one broadcast, callback by callback
\* The callbacks of SpecNotify.
Notified == Callbacks \cup {"cbC"}

\* The set this.subscribers while forEach runs over it: its list of entries
\* in insertion order, a deleted entry left in place as Empty so that the
\* position of forEach stays valid, an added entry appended.
Empty == "empty"

Registered(list) == {list[k] : k \in 1..Len(list)} \ {Empty}

\* Mutant of ListDelete: the entry is cut out and the later entries move up.
ListDeleteShifting(list, x) == SelectSeq(list, LAMBDA y : y # x)

\* this.subscribers.delete(x)
ListDelete(list, x) == [k \in 1..Len(list) |-> IF list[k] = x THEN Empty ELSE list[k]]

\* this.subscribers.add(x)
ListAdd(list, x) == IF x \in Registered(list) THEN list ELSE Append(list, x)

\* Sequences of distinct callbacks: the sets a broadcast can start with.
Distinct(seq) == \A j, k \in 1..Len(seq) : j # k => seq[j] # seq[k]

StartSets == {seq \in UNION {[1..n -> Notified] : n \in 0..2} : Distinct(seq)}

\* _notifySubscribers(state) starts: forEach is at the first entry.  atStart
\* is the set at that moment, invoked the callbacks called so far, current
\* the callback being run (Empty: none); early holds the callbacks deleted
\* before they were invoked, added those inserted during the broadcast,
\* and selfGone those that unsubscribed themselves while being run.
InitNotify ==
    /\ insts = <<>>
    /\ holder = 0
    /\ lastAcquire = [url |-> Undef, ret |-> 0, fresh |-> FALSE]
    /\ sent = <<>>
    /\ heard = [cb \in Callbacks |-> <<>>]
    /\ dec = [pc |-> "idle"]
    /\ used = {}
    /\ fa = [pc |-> "idle"]
    /\ \E subs \in StartSets :
           nf = [pc |-> "loop", list |-> subs, k |-> 1, atStart |-> subs,
                 invoked |-> <<>>, current |-> Empty, early |-> {}, added |-> {},
                 selfGone |-> {}]

\* forEach reaches a live entry: subscriber(state) is called.
Invoke ==
    /\ nf.pc = "loop"
    /\ nf.current = Empty
    /\ nf.k <= Len(nf.list)
    /\ nf.list[nf.k] # Empty
    /\ nf' = [nf EXCEPT !.current = nf.list[nf.k], !.invoked = Append(@, nf.list[nf.k])]
    /\ UNCHANGED <<insts, holder, lastAcquire, sent, heard, dec, used, fa>>

\* forEach passes over a deleted entry.
SkipDeleted ==
    /\ nf.pc = "loop"
    /\ nf.current = Empty
    /\ nf.k <= Len(nf.list)
    /\ nf.list[nf.k] = Empty
    /\ nf' = [nf EXCEPT !.k = @ + 1]
    /\ UNCHANGED <<insts, holder, lastAcquire, sent, heard, dec, used, fa>>

\* The callback being run calls the unsubscribe handle of the registered
\* callback x (itself or another).  When the set becomes empty _disconnect
\* broadcasts in turn, to no callback.
CallbackUnsubscribes(x) ==
    /\ nf.pc = "loop"
    /\ nf.current # Empty
    /\ x \in Registered(nf.list)
    /\ nf' = [nf EXCEPT !.list = ListDelete(@, x),
                        !.early = IF \A k \in 1..Len(nf.invoked) : nf.invoked[k] # x
                                  THEN @ \cup {x} ELSE @,
                        !.selfGone = IF x = nf.current THEN @ \cup {x} ELSE @]
    /\ UNCHANGED <<insts, holder, lastAcquire, sent, heard, dec, used, fa>>

\* The callback being run calls subscribe(x): x is added before the first
\* await of subscribe.
CallbackSubscribes(x) ==
    /\ nf.pc = "loop"
    /\ nf.current # Empty
    /\ x \notin Registered(nf.list)
    /\ Len(nf.list) < MaxEntries
    /\ nf' = [nf EXCEPT !.list = ListAdd(@, x), !.added = @ \cup {x}]
    /\ UNCHANGED <<insts, holder, lastAcquire, sent, heard, dec, used, fa>>

\* The callback being run returns: forEach moves on.
CallbackReturns ==
    /\ nf.pc = "loop"
    /\ nf.current # Empty
    /\ nf' = [nf EXCEPT !.current = Empty, !.k = @ + 1]
    /\ UNCHANGED <<insts, holder, lastAcquire, sent, heard, dec, used, fa>>

\* forEach is past the last entry: _notifySubscribers returns.
NotifyEnd ==
    /\ nf.pc = "loop"
    /\ nf.current = Empty
    /\ nf.k > Len(nf.list)
    /\ nf' = [nf EXCEPT !.pc = "done"]
    /\ UNCHANGED <<insts, holder, lastAcquire, sent, heard, dec, used, fa>>

NextNotify ==
    \/ Invoke
    \/ SkipDeleted
    \/ \E x \in Notified : CallbackUnsubscribes(x)
    \/ \E x \in Notified : CallbackSubscribes(x)
    \/ CallbackReturns
    \/ NotifyEnd

SpecNotify == InitNotify /\ [][NextNotify]_vars

\* ------------------------------------------------------------------ claims
\* The three observable fields of a client state.
Fields(st) == <<st.connected, st.lastMessage, st.error>>

\* C1: in every reachable state an instance has at most one open stream
\* (opened by fetch, neither cancelled nor ended).
C1_AtMostOneOpenStream ==
    \A i \in Insts : Cardinality(OpenStreams(insts[i])) <= 1

\* C2: when an unsubscribe call removes the last registered subscriber, every
\* stream the instance has opened is closed, and while nobody is registered
\* no callback is invoked.
C2_LastUnsubscribeCancelsAll ==
    [][\A i \in Insts :
          /\ (insts[i].subscribers # <<>> /\ insts'[i].subscribers = <<>>)
                => OpenStreams(insts'[i]) = {}
          /\ (insts[i].subscribers = <<>> /\ insts'[i].subscribers = <<>>
                /\ insts'[i].last # insts[i].last)
                => insts'[i].last.to = <<>>]_vars

\* C3: every subscribe call made while no stream of the instance is open
\* (and the URL is one _connect accepts) starts a connection attempt.
C3_SubscribeConnectsWhenClosed ==
    [][\A i \in Insts :
          (/\ Len(insts'[i].calls) = Len(insts[i].calls) + 1
           /\ OpenStreams(insts[i]) = {}
           /\ ~ConnectIsNoop(insts[i]))
             => /\ Len(insts'[i].tasks) = Len(insts[i].tasks) + 1
                /\ insts'[i].tasks[Len(insts'[i].tasks)].pc = "fetch"]_vars

\* A broadcast of connected=false to the callbacks registered in m.
IsDisconnectBroadcast(b, m) ==
    /\ b.state.connected = FALSE
    /\ b.to = m.subscribers

\* C4, as claimed: reconnect() in any state produces a broadcast with
\* connected=false to the registered subscribers and starts a new connection
\* attempt.
C4_ReconnectAlwaysBroadcasts ==
    [][\A i \in Insts :
          Reconnect(i)
             => /\ ReconnectCall(Job(i)).log # <<>>
                /\ IsDisconnectBroadcast(insts'[i].last, insts[i])
                /\ Len(insts'[i].tasks) = Len(insts[i].tasks) + 1]_vars

\* C4, amended: reconnect() called while a reader is held (its stream open
\* or already closed) makes exactly one broadcast, with connected=false, to
\* the registered subscribers, and issues a new fetch at once; called while no
\* reader is held it makes no broadcast, and issues a new fetch when the URL is
\* longer than one character.
C4_ReconnectBroadcastsWhenReaderHeld ==
    [][\A i \in Insts :
          Reconnect(i)
             => IF insts[i].reader # 0
                THEN /\ Len(ReconnectCall(Job(i)).log) = 1
                     /\ insts'[i].last.src = "disconnect"
                     /\ IsDisconnectBroadcast(insts'[i].last, insts[i])
                     /\ OpenStreams(insts'[i]) \cap {insts[i].reader} = {}
                     /\ Len(insts'[i].tasks) = Len(insts[i].tasks) + 1
                     /\ insts'[i].tasks[Len(insts'[i].tasks)].pc = "fetch"
                ELSE /\ ReconnectCall(Job(i)).log = <<>>
                     /\ insts'[i].last = insts[i].last
                     /\ ~ConnectIsNoop(insts[i])
                           => /\ Len(insts'[i].tasks) = Len(insts[i].tasks) + 1
                              /\ insts'[i].tasks[Len(insts'[i].tasks)].pc = "fetch"]_vars

\* C4 witness: reconnect was called with a reader held and subscribers
\* registered: they got the disconnect broadcast and a new fetch is pending.
C4_Witness ==
    \E i \in Insts :
        /\ insts[i].last.src = "disconnect"
        /\ insts[i].last.to # <<>>
        /\ Len(insts[i].tasks) >= 2
        /\ insts[i].tasks[Len(insts[i].tasks)].pc = "fetch"

\* C5: the final broadcast after a graceful end of the stream has
\* connected=false and the lastMessage and error of the broadcast before it.
C5_FinalBroadcastKeepsFields ==
    [][\A i \in Insts : \A t \in Tasks(i) :
          (/\ ReadDone(i, t)
           /\ insts[i].tasks[insts[i].tasks[t].rd].stream = "ended"
           /\ insts[i].last.src # "none")
             => /\ insts'[i].last.src = "finally"
                /\ insts'[i].last.state.connected = FALSE
                /\ insts'[i].last.state.lastMessage = insts[i].last.state.lastMessage
                /\ insts'[i].last.state.error = insts[i].last.state.error]_vars

\* C6: after a transport failure (fetch rejects, no body, read throws) the
\* last state broadcast for that connection attempt has connected=false and
\* carries the error message.
C6_ErrorPersistsAfterFailure ==
    [][\A i \in Insts : \A t \in Tasks(i) :
          (FetchReject(i, t) \/ FetchNoBody(i, t) \/ ReadThrow(i, t))
             => /\ insts'[i].tasks[t].pc = "done"
                /\ insts'[i].last.state.connected = FALSE
                /\ insts'[i].last.state.error # Undef]_vars

\* C7: a broadcast with connected=true is made only while a stream of the
\* instance is open, and never after the stream opened last was cancelled,
\* has ended or has failed and before a new one is opened.
C7_ConnectedOnlyWhileOpen ==
    \A i \in Insts :
        insts[i].last.state.connected = TRUE
           => insts[i].last.open /\ insts[i].last.cur

\* C8: the state a subscribe call returns is the default state before any
\* broadcast, and has the connected, lastMessage and error of the most recent
\* broadcast after one.
C8_SubscribeReturnsCurrentState ==
    [][\A i \in Insts : \A c \in 1..Len(insts'[i].calls) :
          (/\ insts'[i].calls[c].st = "ready"
           /\ IF c \in Calls(i) THEN insts[i].calls[c].st = "awaiting" ELSE TRUE)
             => Fields(insts'[i].calls[c].ret) = Fields(insts'[i].last.state)]_vars

\* C9, as claimed: while an instance is held every acquire returns it, still
\* bound to the url it was built with, and an acquire made after destroyAll
\* (an instance was built and none is held) constructs a fresh instance bound
\* to its own url argument.
C9_AcquireAfterDestroyConstructs ==
    [][\A u \in AcquireUrls :
          Acquire(u)
             => IF holder # 0
                THEN /\ holder' = holder
                     /\ lastAcquire'.ret = holder
                     /\ insts' = insts
                ELSE Len(insts) > 0
                        => /\ Len(insts') = Len(insts) + 1
                           /\ holder' = Len(insts')
                           /\ lastAcquire'.ret = holder'
                           /\ insts'[holder'].url = u]_vars

\* C9, amended: the holder constructs an instance only while it holds none;
\* while an instance is held every acquire, whatever its url argument,
\* returns it, still bound to the url it was built with; the first acquire
\* after destroyAll whose url is non-empty constructs a fresh instance bound
\* to that url, and an acquire with an empty or undefined url while none is
\* held constructs nothing and returns undefined.
C9_AcquireReusesUntilDestroy ==
    /\ [][\A u \in AcquireUrls :
            Acquire(u)
               => IF holder # 0
                  THEN /\ holder' = holder
                       /\ lastAcquire'.ret = holder
                       /\ insts' = insts
                  ELSE IF Truthy(u)
                  THEN /\ Len(insts') = Len(insts) + 1
                       /\ holder' = Len(insts')
                       /\ lastAcquire'.ret = holder'
                       /\ insts'[holder'].url = u
                  ELSE /\ holder' = 0
                       /\ lastAcquire'.ret = 0
                       /\ insts' = insts]_vars
    /\ [][/\ Len(insts') > Len(insts) => holder = 0
          /\ \A i \in Insts : insts'[i].url = insts[i].url]_vars

\* C9 witness: after a destroyAll a second instance was built, and an acquire
\* with another url has returned it, still bound to its own url.
C9_Witness ==
    /\ Len(insts) = 2
    /\ holder = 2
    /\ lastAcquire.ret = 2
    /\ ~lastAcquire.fresh
    /\ Truthy(lastAcquire.url)
    /\ lastAcquire.url # insts[2].url

\* destroyAll was called on instance i while it had an open stream, and
\* destroy() has not got to its unsubscribe yet.
DestroyedWhileOpen(i) ==
    /\ i \in Insts
    /\ insts[i].wrapper = "destroying"
    /\ OpenStreams(insts[i]) # {}

\* Instance i has no open stream and no subscriber.
TornDown(i) ==
    /\ i \in Insts
    /\ OpenStreams(insts[i]) = {}
    /\ insts[i].subscribers = <<>>

\* C10: once destroyAll has been called on an instance with an open stream,
\* eventually no stream of the instance is open and nobody is registered
\* with it, whatever the server does.
C10_DestroyClosesStream ==
    \A i \in 1..MaxInst : DestroyedWhileOpen(i) ~> TornDown(i)

\* C11: every callback is invoked with the messages of the stream in their
\* order of arrival: the lastMessage values a callback has been invoked with
\* are exactly the messages read while it was registered, one invocation per
\* message, in the order of the frames within a chunk and of the chunks.
HeardBy(cb) ==
    LET mine == SelectSeq(sent, LAMBDA e : \E k \in 1..Len(e.to) : e.to[k] = cb)
    IN [k \in 1..Len(mine) |-> mine[k].msg]

C11_MessagesInStreamOrder == \A cb \in Callbacks : heard[cb] = HeardBy(cb)

\* Two chunks were read, the first of two frames; cbA heard all three
\* messages and cbB, registered after the first chunk, the last one only.
C11_Witness ==
    /\ Len(sent) = 3
    /\ heard["cbA"] = <<1, 2, 1>>
    /\ heard["cbB"] = <<1>>

\* C12: decoding a chunk is all or nothing: when a payload of the chunk is
\* no JSON, the chunk causes no broadcast of a message (connected true with
\* a lastMessage), not even for the valid payloads before the bad one, and
\* exactly one broadcast with error set.
HasBadLine == \E k \in 1..Len(dec.dataLines) : ~JsonValid(dec.dataLines[k])

C12_ChunkAllOrNothing ==
    (dec.pc = "done" /\ HasBadLine) =>
        /\ \A k \in 1..Len(dec.out) :
               dec.out[k].src # "message" /\ ~dec.out[k].state.connected
        /\ Cardinality({k \in 1..Len(dec.out) : dec.out[k].state.error # Undef}) = 1

\* A chunk of a valid frame followed by a bad one was decoded with
\* callbacks registered.
C12_Witness ==
    /\ dec.pc = "done"
    /\ dec.pieces = <<PieceOne, PieceBad>>
    /\ dec.dataLines = <<(<<"1">>), (<<"x">>)>>
    /\ Len(dec.out) = 1
    /\ dec.out[1].to # <<>>

\* C13: calling an unsubscribe handle that was called before is a no-op: the
\* subscriber set and the status of every stream stay as they are and no
\* callback is invoked.
C13_SecondUnsubscribeIsNoop ==
    [][\A i \in Insts : \A c \in Calls(i) :
          (UnsubscribeNoted(i, c) /\ <<i, c>> \in used) =>
              /\ insts'[i].subscribers = insts[i].subscribers
              /\ \A t \in Tasks(i) : insts'[i].tasks[t].stream = insts[i].tasks[t].stream
              /\ \A k \in 1..Len(UnsubscribeCall(Job(i), c).log) :
                     UnsubscribeCall(Job(i), c).log[k].to = <<>>]_vars

\* C14: a call of fetchWithAuth(input, init) that has got its response, ok or
\* not, has issued exactly one request to input; the headers of the request
\* are the two defaults overlaid by the caller's headers (the caller's value
\* wins) and its other fields are those of init.
CallerEntries(init) == HeadersOf(init).entries

C14_OneRequestMergedHeaders ==
    (fa.pc # "idle" /\ fa.response # Undef) =>
        /\ Len(fa.requests) = 1
        /\ fa.requests[1].input = fa.input
        /\ fa.requests[1].init.headers =
               Overlay(defaultHeaders(fa.token), CallerEntries(fa.init))
        /\ fa.requests[1].init.method = (IF fa.init.given THEN fa.init.method ELSE Undef)

\* C15: the scanning loop of the decoder ends and collects exactly one
\* payload per marker of the chunk, in order: never more payloads than
\* markers, as many as markers once the loop has ended, and for a last
\* marker without a newline after it the text up to the end of the chunk.
\* (Each piece of a chunk holds one marker.)
C15_OnePayloadPerMarker ==
    dec.pc # "idle" =>
        /\ Len(dec.dataLines) <= Len(dec.pieces)
        /\ dec.pc \in {"parse", "done"} =>
               /\ Len(dec.dataLines) = Len(dec.pieces)
               /\ (dec.pieces # <<>> /\ dec.pieces[Len(dec.pieces)] = PieceOpen) =>
                      dec.dataLines[Len(dec.dataLines)] = <<"2">>

\* C16: the broadcast made for a chunk that fails to parse sets error and
\* has the connected and the lastMessage of the broadcast made just before
\* it.
C16_ParseErrorKeepsFields ==
    [][\A i \in Insts : \A r \in Tasks(i) : \A chunk \in Chunks :
          (/\ ChunkArrive(i, r, chunk)
           /\ ParseFails(chunk)
           /\ insts[i].last.src # "none")
             => LET b == ChunkRead(Job(i), r, chunk).log[1]
                IN /\ b.state.error # Undef
                   /\ b.state.connected = insts[i].last.state.connected
                   /\ b.state.lastMessage = insts[i].last.state.lastMessage]_vars

\* C17: at any time at most one invocation of _connect is awaiting read()
\* on a given reader.
AwaitingRead(m, r) == {t \in 1..Len(m.tasks) : m.tasks[t].pc = "read" /\ m.tasks[t].rd = r}

C17_OneLoopPerReader ==
    \A i \in Insts : \A r \in Tasks(i) : Cardinality(AwaitingRead(insts[i], r)) <= 1

\* C18: a broadcast invokes exactly once, in insertion order, every callback
\* registered when it starts and still registered when its turn comes, also
\* when callbacks unsubscribe themselves while being notified: no callback
\* of the starting set is invoked twice, those not removed before their turn
\* are invoked, and the invocations follow the order of the set.
Times(seq, x) == Cardinality({k \in 1..Len(seq) : seq[k] = x})

InStartOrder ==
    SelectSeq(nf.invoked, LAMBDA cb : cb \notin nf.added /\ Times(nf.atStart, cb) = 1)
      = SelectSeq(nf.atStart, LAMBDA cb : cb \notin nf.early \cup nf.added)

C18_EachInvokedOnceInOrder ==
    nf.pc = "done" =>
        /\ \A k \in 1..Len(nf.atStart) :
               /\ Times(nf.invoked, nf.atStart[k]) <= 1
               /\ nf.atStart[k] \notin nf.early => Times(nf.invoked, nf.atStart[k]) = 1
        /\ InStartOrder

\* C18, amended: the same for the callbacks that are not subscribed during
\* the broadcast; a callback subscribed during the broadcast and left
\* registered is invoked by it as well (once more, when it had been notified
\* and removed).
C18_InvokedOnceUnlessAdded ==
    nf.pc = "done" =>
        /\ InStartOrder
        /\ \A cb \in nf.added \cap Registered(nf.list) :
               \E k \in 1..Len(nf.invoked) : nf.invoked[k] = cb

\* cbA unsubscribed itself while being notified, and cbB, registered after
\* it, was invoked next.
C18_Witness ==
    /\ nf.pc = "done"
    /\ nf.atStart = <<"cbA", "cbB">>
    /\ nf.selfGone = {"cbA"}
    /\ nf.added = {}
    /\ nf.invoked = <<"cbA", "cbB">>

\* C19: when _disconnect runs (the last subscriber unsubscribes, or
\* reconnect is called, with a reader held) while a read loop has a read()
\* pending on an open stream, that read ends with done: the stream the loop
\* reads is cancelled, so that the loop leaves through its break.
DisconnectRuns(i) ==
    /\ insts[i].reader # 0
    /\ \/ Reconnect(i)
       \/ \E c \in Calls(i) : Unsubscribe(i, c) /\ insts'[i].subscribers = <<>>

ReadPending(m, t) ==
    m.tasks[t].pc = "read" /\ m.tasks[m.tasks[t].rd].stream = "open"

C19_DisconnectEndsPendingReads ==
    [][\A i \in Insts : \A t \in Tasks(i) :
          (DisconnectRuns(i) /\ ReadPending(insts[i], t))
             => insts'[i].tasks[insts[i].tasks[t].rd].stream = "cancelled"]_vars

\* C20: a subscribe call made with no reader held and a usable URL starts a
\* _connect and completes only when that invocation is over (its read loop
\* has exited, or its fetch has failed); a subscribe call made while a
\* reader is held completes at once.
C20_SubscribeAwaitsReadLoop ==
    [][\A i \in Insts :
          /\ \A cb \in Callbacks :
                Subscribe(i, cb) =>
                    LET call == insts'[i].calls[Len(insts'[i].calls)]
                    IN IF insts[i].reader # 0
                       THEN call.st = "ready" /\ call.task = 0
                       ELSE ~ConnectIsNoop(insts[i]) =>
                               /\ call.st = "awaiting"
                               /\ call.task = Len(insts[i].tasks) + 1
                               /\ insts'[i].tasks[call.task].pc = "fetch"
          /\ \A c \in Calls(i) :
                (/\ insts[i].calls[c].st = "awaiting"
                 /\ insts'[i].calls[c].st = "ready"
                 /\ insts[i].calls[c].task # 0)
                   => insts[i].tasks[insts[i].calls[c].task].pc = "done"]_vars

\* The first subscribe call started the connection and completed after its
\* loop had exited; the second, made while the reader was held, completed
\* on its own.
C20_Witness ==
    /\ Len(insts) = 1
    /\ Len(insts[1].calls) = 2
    /\ insts[1].calls[1].st = "ready"
    /\ insts[1].calls[1].task = 1
    /\ insts[1].tasks[1].pc = "done"
    /\ insts[1].calls[2].st = "ready"
    /\ insts[1].calls[2].task = 0

====
